---- MODULE Spec2Model ----
(***************************************************************************)
(* Model of src/modules/watcher.py of TgMusicBot: the two update handlers  *)
(* chat_member (updateChatMember) and new_message (updateNewMessage).      *)
(*                                                                         *)
(* Every update is handled by its own asyncio task.  A task runs without   *)
(* interruption between two awaits, so each action below is one resumption *)
(* of a task: the awaited collaborator call completes (its outcome is      *)
(* drawn with \E) and the code runs on to the next await or to the end of  *)
(* the handler.  Collaborators (the TDLib client, db, call, chat_cache,    *)
(* load_admin_cache) are outside the module: a call either returns or      *)
(* raises, and where the code inspects the returned value the value is     *)
(* drawn too.  A call is entered in the task's calls when its await ends.  *)
(*                                                                         *)
(* chat_member reads user_id, old_status and new_status of its update at   *)
(* lines 82-84, after db.add_chat; nothing before depends on them, so the  *)
(* model draws them in that step (AddChat) and a task that never gets      *)
(* there carries no member fields.                                         *)
(***************************************************************************)
EXTENDS Integers, Sequences, FiniteSets, TLC

VARIABLES
    tasks,              \* the handler tasks, in the arrival order of their updates
    db,                 \* chat ids with a persisted chat record (db.add_chat / db.remove_chat)
    user_status_cache   \* play_helpers.user_status_cache: user_key -> status tag

vars == <<tasks, db, user_status_cache>>

-----------------------------------------------------------------------------
(* Bounds and input sets *)

MaxUpdates == 2

MinMembers == 50

my_id == 1

ChatIds == {-1001, -1002, -100, -5, 0, 7}

UserIds == {0, 1, 2}

Left == "chatMemberStatusLeft"

Member == "chatMemberStatusMember"

Administrator == "chatMemberStatusAdministrator"

Banned == "chatMemberStatusBanned"

Restricted == "chatMemberStatusRestricted"

Statuses == {Left, Member, Administrator, Banned, Restricted}

MemberCounts == {0, MinMembers - 1, MinMembers, MinMembers + 1}

Contents == {"messageVideoChatEnded", "messageVideoChatStarted", "messageText"}

-----------------------------------------------------------------------------
(* str(chat_id), startswith and int(...) as the code uses them *)

DigitChar(d) == <<"0", "1", "2", "3", "4", "5", "6", "7", "8", "9">>[d + 1]

RECURSIVE DigitsOf(_)
DigitsOf(n) ==
    IF n < 10 THEN <<DigitChar(n)>>
    ELSE Append(DigitsOf(n \div 10), DigitChar(n % 10))

Str(n) == IF n < 0 THEN <<"-">> \o DigitsOf(-n) ELSE DigitsOf(n)

StartsWith(s, p) == Len(s) >= Len(p) /\ SubSeq(s, 1, Len(p)) = p

DigitValue(c) == CHOOSE d \in 0..9 : DigitChar(d) = c

RECURSIVE IntOf(_)
IntOf(s) ==
    IF Len(s) = 1 THEN DigitValue(s[1])
    ELSE 10 * IntOf(SubSeq(s, 1, Len(s) - 1)) + DigitValue(s[Len(s)])

\* a check of the sign alone
is_valid_supergroup_sign(chat_id) == chat_id < 0

is_valid_supergroup(chat_id) == StartsWith(Str(chat_id), <<"-", "1", "0", "0">>)

\* line 51: the id handle_bot_join works with; int("") raises ValueError
StripPrefix(chat_id) ==
    IF StartsWith(Str(chat_id), <<"-", "1", "0", "0">>)
    THEN LET rest == SubSeq(Str(chat_id), 5, Len(Str(chat_id)))
         IN  IF rest = <<>> THEN [tag |-> "ValueError"]
             ELSE [tag |-> "int", value |-> IntOf(rest)]
    ELSE [tag |-> "int", value |-> chat_id]

\* line 190: f"{chat_id}:{ub.me.id}"
user_key(chat_id, id) == Str(chat_id) \o <<":">> \o Str(id)

-----------------------------------------------------------------------------
(* Values returned by collaborators where the code inspects them *)

\* client.getSupergroupFullInfo: types.Error or a value with member_count
InfoResults ==
    {[tag |-> "Error"]} \cup {[tag |-> "info", member_count |-> c] : c \in MemberCounts}

\* call.get_client: types.Error, None, or a client whose me.id is a user id
ClientResults ==
    {[tag |-> "Error"], [tag |-> "None"]}
        \cup {[tag |-> "client", id |-> u] : u \in UserIds \ {0}}

NoValue == [tag |-> "unset"]

Raised == [tag |-> "raised"]

-----------------------------------------------------------------------------
(* A handler task.                                                          *)
(*   pc       the await the task is suspended at, or "done"                 *)
(*   exit     how the entry point ended: "returned", "caught" (the except   *)
(*            branch of chat_member, lines 94-96) or "propagated" (an       *)
(*            exception left the entry point)                               *)
(*   read     lines 82-84 have read user_id, old_status, new_status         *)
(*   handler  the handler _handle_status_changes called                     *)
(*   target   the chat id handle_bot_join works with after line 51          *)
(*   wrote    the status the task stored in user_status_cache, or "none"    *)
(*   calls    the collaborator calls the task made, in order                *)

NewTask(kind, chat_id, content) ==
    [kind |-> kind, chat_id |-> chat_id, content |-> content,
     read |-> FALSE, user_id |-> 0, old_status |-> "unread", new_status |-> "unread",
     pc |-> "start", exit |-> "running", handler |-> "none",
     target |-> chat_id, info |-> NoValue, ub |-> NoValue, wrote |-> "none",
     calls |-> <<>>]

Call(op, arg) == [op |-> op, arg |-> arg, text |-> "none"]

Notice(arg, text) == [op |-> "sendTextMessage", arg |-> arg, text |-> text]

Finish(t, how) == [t EXCEPT !.pc = "done", !.exit = how]

Called(t, c) == [t EXCEPT !.calls = Append(@, c)]

Init ==
    /\ tasks = <<>>
    /\ db = {}
    /\ user_status_cache = [k \in {} |-> Left]

-----------------------------------------------------------------------------
(* The classifier, lines 107-181 *)

\* the join branch taken on the old status alone
Classify_joinfirst(old_status, new_status) ==
    IF old_status = Left
    THEN "_handle_join"
    ELSE IF old_status \in {Member, Administrator} /\ new_status = Left
    THEN "_handle_leave_or_kick"
    ELSE IF new_status = Banned
    THEN "_handle_ban"
    ELSE IF old_status = Banned /\ new_status = Left
    THEN "_handle_unban"
    ELSE "_handle_promotion_demotion"

\* the unban branch shadowed by the fallback
Classify_nounban(old_status, new_status) ==
    IF old_status = Left /\ new_status \in {Member, Administrator}
    THEN "_handle_join"
    ELSE IF old_status \in {Member, Administrator} /\ new_status = Left
    THEN "_handle_leave_or_kick"
    ELSE IF new_status = Banned
    THEN "_handle_ban"
    ELSE "_handle_promotion_demotion"

\* the unban branch taken for every return to Left it is reached with
Classify_unbanloose(old_status, new_status) ==
    IF old_status = Left /\ new_status \in {Member, Administrator}
    THEN "_handle_join"
    ELSE IF old_status \in {Member, Administrator} /\ new_status = Left
    THEN "_handle_leave_or_kick"
    ELSE IF new_status = Banned
    THEN "_handle_ban"
    ELSE IF new_status = Left
    THEN "_handle_unban"
    ELSE "_handle_promotion_demotion"

\* lines 111-130: the handler _handle_status_changes calls
Classify(old_status, new_status) ==
    IF old_status = Left /\ new_status \in {Member, Administrator}
    THEN "_handle_join"
    ELSE IF old_status \in {Member, Administrator} /\ new_status = Left
    THEN "_handle_leave_or_kick"
    ELSE IF new_status = Banned
    THEN "_handle_ban"
    ELSE IF old_status = Banned /\ new_status = Left
    THEN "_handle_unban"
    ELSE "_handle_promotion_demotion"

\* _handle_leave_or_kick passing the banned tag
StatusWritten_swapped(handler) ==
    CASE handler = "_handle_leave_or_kick" -> Banned
      [] handler = "_handle_ban" -> Banned
      [] handler = "_handle_unban" -> Left

\* _handle_unban passing the member tag
StatusWritten_member(handler) ==
    CASE handler = "_handle_leave_or_kick" -> Left
      [] handler = "_handle_ban" -> Banned
      [] handler = "_handle_unban" -> Member

\* lines 143, 149, 155: the status each handler passes to _update_user_status_cache
StatusWritten(handler) ==
    CASE handler = "_handle_leave_or_kick" -> Left
      [] handler = "_handle_ban" -> Banned
      [] handler = "_handle_unban" -> Left

is_promoted(old_status, new_status) ==
    old_status /= Administrator /\ new_status = Administrator

\* a demotion that goes unnoticed
is_demoted_never(old_status, new_status) == FALSE

is_demoted(old_status, new_status) ==
    old_status = Administrator /\ new_status /= Administrator

\* load_admin_cache inside the branch of the bot's own promotion
ReloadsAdminCache_selfonly(user_id, old_status, new_status) ==
    user_id = my_id /\ is_promoted(old_status, new_status)

\* lines 171-180: whether _handle_promotion_demotion goes on to load_admin_cache
ReloadsAdminCache(user_id, old_status, new_status) ==
    is_promoted(old_status, new_status) \/ is_demoted(old_status, new_status)

\* the threshold compared with <=
AfterInfo_inclusive(info) ==
    IF info.tag = "Error" THEN "done"
    ELSE IF info.member_count <= MinMembers THEN "sendTextMessage_small"
    ELSE "done"

\* a failed lookup taken for a group that is too small
AfterInfo_errorkicks(info) ==
    IF info.tag = "Error" THEN "sendTextMessage_small"
    ELSE IF info.member_count < MinMembers THEN "sendTextMessage_small"
    ELSE "done"

\* a small group left without the notice
AfterInfo_leavefirst(info) ==
    IF info.tag = "Error" THEN "done"
    ELSE IF info.member_count < MinMembers THEN "leaveChat_small"
    ELSE "done"

\* lines 53-57: where handle_bot_join goes once getSupergroupFullInfo has returned
AfterInfo(info) ==
    IF info.tag = "Error" THEN "done"
    ELSE IF info.member_count < MinMembers THEN "sendTextMessage_small"
    ELSE "done"

\* the comparison of line 189 left out
WritesCache_any(ub, user_id) == ub.tag \notin {"Error", "None"}

\* lines 186-189: whether _update_user_status_cache writes
WritesCache(ub, user_id) ==
    /\ ub.tag \notin {"Error", "None"}
    /\ user_id = ub.id

\* an entry that is already there dropped instead of overwritten
CacheAfterWrite_toggle(cache, key, status) ==
    IF key \in DOMAIN cache
    THEN [k \in DOMAIN cache \ {key} |-> cache[k]]
    ELSE [k \in DOMAIN cache \cup {key} |-> IF k = key THEN status ELSE cache[k]]

\* line 191: user_status_cache[user_key] = status
CacheAfterWrite(cache, key, status) ==
    [k \in DOMAIN cache \cup {key} |-> IF k = key THEN status ELSE cache[k]]

\* db.add_chat that returns without having recorded the chat
DbAfterAdd_lost(chats, chat_id) == chats

\* line 81: the chat records once db.add_chat(chat_id) has returned
DbAfterAdd(chats, chat_id) == chats \cup {chat_id}

\* the check of line 87 left out
SkipsUser_never(user_id) == FALSE

\* line 87
SkipsUser(user_id) == user_id = 0

\* lines 91, 107-181 up to the first await: t has read its fields and is not skipped
Dispatch(t) ==
    LET h == Classify(t.old_status, t.new_status)
        th == [t EXCEPT !.handler = h]
    IN  CASE h = "_handle_join" ->
               IF t.user_id = my_id
               THEN LET s == StripPrefix(t.chat_id)
                    IN  IF s.tag = "ValueError" THEN Finish(th, "caught")
                        ELSE [th EXCEPT !.target = s.value, !.pc = "getSupergroupFullInfo"]
               ELSE Finish(th, "returned")
          [] h \in {"_handle_leave_or_kick", "_handle_ban", "_handle_unban"} ->
               [th EXCEPT !.pc = "get_client"]
          [] OTHER ->
               IF ReloadsAdminCache(t.user_id, t.old_status, t.new_status)
               THEN [th EXCEPT !.pc = "load_admin_cache"]
               ELSE Finish(th, "returned")

-----------------------------------------------------------------------------
(* chat_member, lines 72-96 *)

\* lines 74-78, 99-104: a membership update arrives and its task runs to its first await
ChatMemberArrives(chat_id) ==
    /\ Len(tasks) < MaxUpdates
    /\ LET t == NewTask("chat_member", chat_id, "none")
       IN  tasks' = Append(tasks,
                IF chat_id > 0 THEN Finish(t, "returned")
                ELSE IF ~is_valid_supergroup(chat_id)
                THEN [t EXCEPT !.pc = "sendTextMessage_reject"]
                ELSE [t EXCEPT !.pc = "add_chat"])
    /\ UNCHANGED <<db, user_status_cache>>

\* lines 31-35: handle_non_supergroup's notice; nothing catches what it raises
RejectSend(i) ==
    /\ tasks[i].pc = "sendTextMessage_reject"
    /\ \E raises \in BOOLEAN :
         LET t == Called(tasks[i], Notice(tasks[i].chat_id, "not a supergroup"))
         IN  tasks' = [tasks EXCEPT ![i] =
                IF raises THEN Finish(t, "propagated")
                ELSE [t EXCEPT !.pc = "leaveChat_reject"]]
    /\ UNCHANGED <<db, user_status_cache>>

\* lines 35-36, 103, 78: sleep, leave the chat, _validate_chat returns False
RejectLeave(i) ==
    /\ tasks[i].pc = "leaveChat_reject"
    /\ \E raises \in BOOLEAN :
         LET t == Called(tasks[i], Call("leaveChat", tasks[i].chat_id))
         IN  tasks' = [tasks EXCEPT ![i] =
                Finish(t, IF raises THEN "propagated" ELSE "returned")]
    /\ UNCHANGED <<db, user_status_cache>>

\* lines 81-91: db.add_chat returns, the fields are read, the classifier runs
AddChat(i) ==
    /\ tasks[i].pc = "add_chat"
    /\ LET t == Called(tasks[i], Call("add_chat", tasks[i].chat_id))
       IN  \/ /\ db' = DbAfterAdd(db, t.chat_id)
              /\ \E u \in UserIds, o \in Statuses, n \in Statuses :
                   LET tr == [t EXCEPT !.read = TRUE, !.user_id = u,
                                       !.old_status = o, !.new_status = n]
                   IN  tasks' = [tasks EXCEPT ![i] =
                          IF SkipsUser(u) THEN Finish(tr, "returned") ELSE Dispatch(tr)]
           \/ /\ db' = db
              /\ tasks' = [tasks EXCEPT ![i] = Finish(t, "caught")]
    /\ UNCHANGED user_status_cache

\* lines 52-57: getSupergroupFullInfo returns
GetInfo(i) ==
    /\ tasks[i].pc = "getSupergroupFullInfo"
    /\ LET t == Called(tasks[i], Call("getSupergroupFullInfo", tasks[i].target))
       IN  \/ \E info \in InfoResults :
                tasks' = [tasks EXCEPT ![i] =
                    IF AfterInfo(info) = "done"
                    THEN Finish([t EXCEPT !.info = info], "returned")
                    ELSE [t EXCEPT !.info = info, !.pc = AfterInfo(info)]]
           \/ tasks' = [tasks EXCEPT ![i] = Finish([t EXCEPT !.info = Raised], "caught")]
    /\ UNCHANGED <<db, user_status_cache>>

\* line 65: the too-few-members notice
KickSend(i) ==
    /\ tasks[i].pc = "sendTextMessage_small"
    /\ \E raises \in BOOLEAN :
         LET t == Called(tasks[i], Notice(tasks[i].target, "too few members"))
         IN  tasks' = [tasks EXCEPT ![i] =
                IF raises THEN Finish(t, "caught") ELSE [t EXCEPT !.pc = "leaveChat_small"]]
    /\ UNCHANGED <<db, user_status_cache>>

\* lines 66-67: sleep, then leave the chat
KickLeave(i) ==
    /\ tasks[i].pc = "leaveChat_small"
    /\ \E raises \in BOOLEAN :
         LET t == Called(tasks[i], Call("leaveChat", tasks[i].target))
         IN  tasks' = [tasks EXCEPT ![i] =
                IF raises THEN Finish(t, "caught") ELSE [t EXCEPT !.pc = "remove_chat"]]
    /\ UNCHANGED <<db, user_status_cache>>

\* line 68: db.remove_chat
KickRemove(i) ==
    /\ tasks[i].pc = "remove_chat"
    /\ LET t == Called(tasks[i], Call("remove_chat", tasks[i].target))
       IN  \/ /\ db' = db \ {t.target}
              /\ tasks' = [tasks EXCEPT ![i] = Finish(t, "returned")]
           \/ /\ db' = db
              /\ tasks' = [tasks EXCEPT ![i] = Finish(t, "caught")]
    /\ UNCHANGED user_status_cache

\* lines 185-191: call.get_client returns and _update_user_status_cache finishes
GetClient(i) ==
    /\ tasks[i].pc = "get_client"
    /\ LET t == Called(tasks[i], Call("get_client", tasks[i].chat_id))
       IN  \/ \E ub \in ClientResults :
                IF WritesCache(ub, t.user_id)
                THEN LET key == user_key(t.chat_id, ub.id)
                         status == StatusWritten(t.handler)
                     IN  /\ user_status_cache' =
                                CacheAfterWrite(user_status_cache, key, status)
                         /\ tasks' = [tasks EXCEPT ![i] =
                                Finish([t EXCEPT !.ub = ub, !.wrote = status], "returned")]
                ELSE /\ user_status_cache' = user_status_cache
                     /\ tasks' = [tasks EXCEPT ![i] = Finish([t EXCEPT !.ub = ub], "returned")]
           \/ /\ user_status_cache' = user_status_cache
              /\ tasks' = [tasks EXCEPT ![i] = Finish([t EXCEPT !.ub = Raised], "caught")]
    /\ UNCHANGED db

\* line 180: load_admin_cache(client, chat_id, True)
LoadAdmin(i) ==
    /\ tasks[i].pc = "load_admin_cache"
    /\ \E raises \in BOOLEAN :
         LET t == Called(tasks[i], Call("load_admin_cache", tasks[i].chat_id))
         IN  tasks' = [tasks EXCEPT ![i] =
                Finish(t, IF raises THEN "caught" ELSE "returned")]
    /\ UNCHANGED <<db, user_status_cache>>

-----------------------------------------------------------------------------
(* new_message, lines 194-217 *)

\* one text for both notices
NoticeText_ended(content) == "video chat ended"

\* lines 207, 213: the text of the notice
NoticeText(content) ==
    IF content = "messageVideoChatEnded" THEN "video chat ended"
    ELSE "video chat started"

\* lines 199-206, 209-211, 216-217: a message update arrives; content "None" is an
\* update without a message
NewMessageArrives(chat_id, content) ==
    /\ Len(tasks) < MaxUpdates
    /\ LET t == NewTask("new_message", chat_id, content)
       IN  tasks' = Append(tasks,
                IF content \in {"messageVideoChatEnded", "messageVideoChatStarted"}
                THEN [Called(t, Call("clear_chat", chat_id)) EXCEPT
                          !.pc = "sendTextMessage_video"]
                ELSE Finish(t, "returned"))
    /\ UNCHANGED <<db, user_status_cache>>

\* lines 207-208, 212-215: the notice; nothing catches what it raises
VideoSend(i) ==
    /\ tasks[i].pc = "sendTextMessage_video"
    /\ \E raises \in BOOLEAN :
         LET t == Called(tasks[i], Notice(tasks[i].chat_id, NoticeText(tasks[i].content)))
         IN  tasks' = [tasks EXCEPT ![i] =
                Finish(t, IF raises THEN "propagated" ELSE "returned")]
    /\ UNCHANGED <<db, user_status_cache>>

-----------------------------------------------------------------------------

Next ==
    \/ \E chat_id \in ChatIds : ChatMemberArrives(chat_id)
    \/ \E chat_id \in ChatIds, content \in Contents \cup {"None"} :
            NewMessageArrives(chat_id, content)
    \/ \E i \in 1..Len(tasks) : RejectSend(i)
    \/ \E i \in 1..Len(tasks) : RejectLeave(i)
    \/ \E i \in 1..Len(tasks) : AddChat(i)
    \/ \E i \in 1..Len(tasks) : GetInfo(i)
    \/ \E i \in 1..Len(tasks) : KickSend(i)
    \/ \E i \in 1..Len(tasks) : KickLeave(i)
    \/ \E i \in 1..Len(tasks) : KickRemove(i)
    \/ \E i \in 1..Len(tasks) : GetClient(i)
    \/ \E i \in 1..Len(tasks) : LoadAdmin(i)
    \/ \E i \in 1..Len(tasks) : VideoSend(i)

Spec == Init /\ [][Next]_vars

\* line 17: user_status_cache is an object shared with play_helpers; the caches the
\* handlers may find when the first update arrives
StartCaches ==
    {[k \in {} |-> Left]}
        \cup {[k \in {user_key(-1001, my_id)} |-> s] : s \in {Left, Banned, Member}}

InitReplay ==
    /\ tasks = <<>>
    /\ db = {}
    /\ user_status_cache \in StartCaches

SpecReplay == InitReplay /\ [][Next]_vars

-----------------------------------------------------------------------------
(* Vocabulary of the properties *)

TaskIds == 1..Len(tasks)

\* the chat ids whose string form starts with "-100"
SupergroupIds == {c \in ChatIds : StartsWith(Str(c), <<"-", "1", "0", "0">>)}

IsPrefix(s, t) == Len(s) <= Len(t) /\ SubSeq(t, 1, Len(s)) = s

CountOp(t, op) == Cardinality({k \in 1..Len(t.calls) : t.calls[k].op = op})

Made(t, c) == \E k \in 1..Len(t.calls) : t.calls[k] = c

HasEntry(chat_id, id) == user_key(chat_id, id) \in DOMAIN user_status_cache

Entry(chat_id, id) == user_status_cache[user_key(chat_id, id)]

\* the Reject flow for a chat, and the calls of a video-chat message
RejectCalls(chat_id) ==
    <<Notice(chat_id, "not a supergroup"), Call("leaveChat", chat_id)>>

VideoCalls(t) ==
    IF t.content \in {"messageVideoChatEnded", "messageVideoChatStarted"}
    THEN <<Call("clear_chat", t.chat_id),
           Notice(t.chat_id, IF t.content = "messageVideoChatEnded"
                             THEN "video chat ended" ELSE "video chat started")>>
    ELSE <<>>

\* the subject of t is the bot (client.options["my_id"]) and it joined
SelfJoined(t) ==
    /\ t.read /\ t.user_id = my_id
    /\ t.old_status = Left /\ t.new_status \in {Member, Administrator}

Gained(t) == t.old_status /= Administrator /\ t.new_status = Administrator

Lost(t) == t.old_status = Administrator /\ t.new_status /= Administrator

-----------------------------------------------------------------------------
(* C1 *)

\* j is the latest-arrived task that wrote the cache entry i wrote as well
LatestWriter(i, j) ==
    /\ i < j
    /\ tasks[i].wrote /= "none" /\ tasks[j].wrote /= "none"
    /\ tasks[i].chat_id = tasks[j].chat_id
    /\ tasks[i].ub.id = tasks[j].ub.id
    /\ \A k \in TaskIds : k > j =>
          ~(tasks[k].wrote /= "none" /\ tasks[k].chat_id = tasks[j].chat_id
                /\ tasks[k].ub.id = tasks[j].ub.id)

\* C1: when every task has finished, the Status Cache entry two updates of the same
\* chat both wrote holds the status written by the later-arrived update.
C1_WritesInArrivalOrder ==
    (\A k \in TaskIds : tasks[k].pc = "done") =>
        \A i, j \in TaskIds :
            LatestWriter(i, j) => Entry(tasks[j].chat_id, tasks[j].ub.id) = tasks[j].wrote

-----------------------------------------------------------------------------
(* C2 *)

\* C2 as stated: an update or message for a chat id outside the supergroup convention,
\* positive ids included, makes exactly the calls of the Reject flow.
C2_RejectForEveryNonSupergroup ==
    \A i \in TaskIds :
        (tasks[i].pc = "done" /\ tasks[i].chat_id \notin SupergroupIds)
            => tasks[i].calls = RejectCalls(tasks[i].chat_id)

\* C2 amended: outside the supergroup convention a membership update for a chat id <= 0
\* makes the calls of the Reject flow in order and nothing else (both of them whenever
\* the handler returns), a membership update for a positive chat id makes no call at
\* all, and a message is handled as in any chat (clear and notice for a video-chat
\* message, nothing otherwise); none of them reads the member fields, runs a handler,
\* ensures a chat record or writes the Status Cache.
C2_RejectOnlyNonPositiveMembership ==
    /\ \A i \in TaskIds :
          LET t == tasks[i]
          IN  t.chat_id \notin SupergroupIds =>
                /\ ~t.read /\ t.handler = "none" /\ t.wrote = "none"
                /\ (t.kind = "chat_member" /\ t.chat_id <= 0) =>
                      /\ IsPrefix(t.calls, RejectCalls(t.chat_id))
                      /\ t.pc = "done" => Len(t.calls) >= 1
                      /\ (t.pc = "done" /\ t.exit = "returned")
                            => t.calls = RejectCalls(t.chat_id)
                /\ (t.kind = "chat_member" /\ t.chat_id > 0) =>
                      t.pc = "done" /\ t.exit = "returned" /\ t.calls = <<>>
                /\ t.kind = "new_message" =>
                      /\ IsPrefix(t.calls, VideoCalls(t))
                      /\ t.pc = "done" => t.calls = VideoCalls(t)
    /\ (\A i \in TaskIds : tasks[i].chat_id \notin SupergroupIds)
          => db = {} /\ DOMAIN user_status_cache = {}

C2_Witness ==
    \E i, j \in TaskIds :
        /\ tasks[i].kind = "chat_member" /\ tasks[i].chat_id = -5
        /\ tasks[i].pc = "done" /\ tasks[i].calls = RejectCalls(-5)
        /\ tasks[j].kind = "chat_member" /\ tasks[j].chat_id = 7
        /\ tasks[j].pc = "done"

-----------------------------------------------------------------------------
(* C3 *)

\* C3 as stated: a membership update whose subject user id is 0 makes no collaborator
\* call at all.
C3_UserZeroMakesNoCall ==
    \A i \in TaskIds :
        (tasks[i].read /\ tasks[i].user_id = 0) => tasks[i].calls = <<>>

\* C3 amended: a membership update of an eligible chat whose subject user id is 0
\* ensures the chat record (db.add_chat, which precedes the check) and makes no other
\* call: no handler runs, nothing is sent, left, looked up, refreshed, removed or
\* written to the Status Cache.
C3_UserZeroOnlyEnsuresRecord ==
    \A i \in TaskIds :
        LET t == tasks[i]
        IN  (t.read /\ t.user_id = 0) =>
              /\ t.pc = "done" /\ t.exit = "returned"
              /\ t.calls = <<Call("add_chat", t.chat_id)>>
              /\ t.handler = "none" /\ t.wrote = "none"

C3_Witness ==
    \E i \in TaskIds :
        /\ tasks[i].read /\ tasks[i].user_id = 0 /\ tasks[i].pc = "done"
        /\ tasks[i].old_status = Member /\ tasks[i].new_status = Banned

-----------------------------------------------------------------------------
(* C4 *)

\* the bot is demoted by update i and promoted again by the later update j of the
\* same chat, and both updates have been processed
DemotedThenPromoted(i, j) ==
    /\ i < j /\ tasks[i].chat_id = tasks[j].chat_id
    /\ tasks[i].pc = "done" /\ tasks[j].pc = "done"
    /\ tasks[i].read /\ tasks[i].user_id = my_id
    /\ tasks[i].old_status = Administrator /\ tasks[i].new_status = Member
    /\ tasks[j].read /\ tasks[j].user_id = my_id
    /\ tasks[j].old_status = Member /\ tasks[j].new_status = Administrator

-----------------------------------------------------------------------------
(* C5 *)

-----------------------------------------------------------------------------
(* C6 *)

\* C6: when the bot joined a chat with fewer than 50 members and the flow ran to its
\* end, the notice went to the chat of the update, that chat was left, and its chat
\* record is gone.
C6_KickActsOnTheUpdatesChat ==
    \A i \in TaskIds :
        LET t == tasks[i]
        IN  (/\ SelfJoined(t) /\ t.pc = "done" /\ t.exit = "returned"
             /\ t.info.tag = "info" /\ t.info.member_count < MinMembers
             /\ \A j \in TaskIds \ {i} : tasks[j].chat_id /= t.chat_id)
                => /\ Made(t, Notice(t.chat_id, "too few members"))
                   /\ Made(t, Call("leaveChat", t.chat_id))
                   /\ t.chat_id \notin db

-----------------------------------------------------------------------------
(* C7 *)

\* C7: when the bot joined an eligible chat and the lookup gave a member_count of at
\* least 50, _handle_join ran, the handler returned, and the only calls are the ensured
\* chat record and the lookup: no notice, no leave, no removal, no Status Cache write.
C7_LargeGroupJoinIsNotPunished ==
    \A i \in TaskIds :
        LET t == tasks[i]
        IN  (/\ SelfJoined(t) /\ t.info.tag = "info"
             /\ t.info.member_count >= MinMembers)
                => /\ t.handler = "_handle_join"
                   /\ t.pc = "done" /\ t.exit = "returned"
                   /\ t.calls = <<Call("add_chat", t.chat_id),
                                  Call("getSupergroupFullInfo", t.target)>>
                   /\ t.wrote = "none"

C7_Witness ==
    \E i, j \in TaskIds :
        /\ SelfJoined(tasks[i]) /\ tasks[i].new_status = Member
        /\ tasks[i].info.tag = "info" /\ tasks[i].info.member_count = MinMembers
        /\ SelfJoined(tasks[j]) /\ tasks[j].new_status = Administrator
        /\ tasks[j].info.tag = "info" /\ tasks[j].info.member_count >= MinMembers
        /\ tasks[i].chat_id \in db

-----------------------------------------------------------------------------
(* C8 *)

\* the subject of t went Member -> Left
WentMemberToLeft(t) ==
    t.read /\ t.user_id /= 0 /\ t.old_status = Member /\ t.new_status = Left

\* C8 as stated: once the bot's own Member -> Left update of an eligible chat has been
\* processed, the entry for (chat, bot) is Left whatever resolving the identity gave.
C8_LeftWhateverTheResolution ==
    \A i \in TaskIds :
        LET t == tasks[i]
        IN  (/\ WentMemberToLeft(t) /\ t.user_id = my_id /\ t.pc = "done"
             /\ t.ub.tag = "client" => t.ub.id = my_id)
                => HasEntry(t.chat_id, my_id) /\ Entry(t.chat_id, my_id) = Left

\* C8 amended: the step that ends the processing of a Member -> Left update leaves the
\* entry for (chat, identity) at Left when the identity resolved for the chat is the
\* subject, and leaves the whole Status Cache unchanged when the identity is
\* unavailable, differs from the subject, or resolving it raised; and the step that
\* ends any LeftOrKicked, Banned or Unbanned update changes no entry of another chat.
C8_LeftWhenIdentityResolved ==
    [][\A i \in TaskIds :
          LET t == tasks[i]
              after == tasks'[i]
          IN  (t.pc = "get_client" /\ after.pc = "done") =>
                /\ WentMemberToLeft(t) =>
                      IF after.ub.tag = "client" /\ after.ub.id = t.user_id
                      THEN /\ user_key(t.chat_id, t.user_id) \in DOMAIN user_status_cache'
                           /\ user_status_cache'[user_key(t.chat_id, t.user_id)] = Left
                           /\ after.exit = "returned"
                      ELSE user_status_cache' = user_status_cache
                /\ \A c \in ChatIds \ {t.chat_id}, u \in UserIds :
                      LET k == user_key(c, u)
                      IN  /\ k \in DOMAIN user_status_cache' <=> k \in DOMAIN user_status_cache
                          /\ k \in DOMAIN user_status_cache
                                => user_status_cache'[k] = user_status_cache[k]
      ]_vars

C8_Witness ==
    \E i, j \in TaskIds :
        /\ WentMemberToLeft(tasks[i]) /\ tasks[i].user_id = my_id
        /\ tasks[i].pc = "done" /\ tasks[i].wrote = Left
        /\ tasks[j].chat_id /= tasks[i].chat_id
        /\ tasks[j].handler = "_handle_ban" /\ tasks[j].wrote = Banned
        /\ HasEntry(tasks[i].chat_id, my_id) /\ Entry(tasks[i].chat_id, my_id) = Left
        /\ HasEntry(tasks[j].chat_id, tasks[j].ub.id)

-----------------------------------------------------------------------------
(* C9 *)

\* C9: no exception leaves an entry point: every task ends by returning, either
\* normally or through the except branch of its handler.
C9_NoErrorLeavesAnEntryPoint ==
    \A i \in TaskIds : tasks[i].exit /= "propagated"

-----------------------------------------------------------------------------
(* C10 *)

\* C10: when the bot joined an eligible chat and the metadata lookup returned an
\* error, the handler returned normally having made the ensured chat record and one
\* lookup as its only calls: no notice, no leave, no removal, no second lookup.
C10_FailedLookupStops ==
    \A i \in TaskIds :
        LET t == tasks[i]
        IN  (SelfJoined(t) /\ t.info.tag = "Error") =>
              /\ t.pc = "done" /\ t.exit = "returned"
              /\ t.handler = "_handle_join"
              /\ t.calls = <<Call("add_chat", t.chat_id),
                             Call("getSupergroupFullInfo", t.target)>>
              /\ t.wrote = "none"

C10_Witness ==
    \E i \in TaskIds :
        /\ SelfJoined(tasks[i]) /\ tasks[i].info.tag = "Error"
        /\ tasks[i].pc = "done" /\ tasks[i].chat_id \in db

-----------------------------------------------------------------------------
(* C11 *)

\* C11: a membership update of an eligible chat with a nonzero subject and new status
\* Banned is handed to _handle_ban whatever its old status is, never to _handle_join or
\* _handle_leave_or_kick; and when the subject is the bot identity resolved for the
\* chat, the Status Cache entry of the chat holds Banned once the handler has finished.
C11_BannedWhateverTheOldStatus ==
    [][\A i \in TaskIds :
          /\ (/\ tasks[i].pc = "add_chat"
              /\ tasks'[i].read /\ tasks'[i].user_id /= 0
              /\ tasks'[i].new_status = Banned)
                => /\ tasks'[i].handler = "_handle_ban"
                   /\ tasks'[i].pc = "get_client"
          /\ (/\ tasks[i].pc = "get_client" /\ tasks[i].new_status = Banned
              /\ tasks'[i].pc = "done"
              /\ tasks'[i].ub.tag = "client"
              /\ tasks'[i].ub.id = tasks[i].user_id)
                => /\ user_key(tasks[i].chat_id, tasks[i].user_id)
                        \in DOMAIN user_status_cache'
                   /\ user_status_cache'[user_key(tasks[i].chat_id, tasks[i].user_id)]
                        = Banned]_vars

C11_Witness ==
    \E i, j \in TaskIds :
        /\ tasks[i].read /\ tasks[i].old_status = Left /\ tasks[i].new_status = Banned
        /\ tasks[i].pc = "done" /\ tasks[i].ub.tag = "client"
        /\ tasks[i].ub.id = tasks[i].user_id
        /\ HasEntry(tasks[i].chat_id, tasks[i].user_id)
        /\ Entry(tasks[i].chat_id, tasks[i].user_id) = Banned
        /\ tasks[j].read /\ tasks[j].old_status = Restricted
        /\ tasks[j].new_status = Banned /\ tasks[j].handler = "_handle_ban"

-----------------------------------------------------------------------------
(* C12 *)

IsMessage(t, content) == t.kind = "new_message" /\ t.content = content

\* C12: a messageVideoChatEnded followed by a messageVideoChatStarted for the same chat
\* clear the chat's runtime state exactly twice and send exactly two notices, whose
\* texts differ; message updates never write the Status Cache; and a message with any
\* other content clears nothing and sends nothing.
C12_EndedThenStarted ==
    /\ \A i, j \in TaskIds :
          (/\ i < j /\ tasks[i].chat_id = tasks[j].chat_id
           /\ IsMessage(tasks[i], "messageVideoChatEnded")
           /\ IsMessage(tasks[j], "messageVideoChatStarted")
           /\ tasks[i].pc = "done" /\ tasks[j].pc = "done")
            => /\ CountOp(tasks[i], "clear_chat") + CountOp(tasks[j], "clear_chat") = 2
               /\ CountOp(tasks[i], "sendTextMessage")
                    + CountOp(tasks[j], "sendTextMessage") = 2
               /\ Len(tasks[i].calls) = 2 /\ Len(tasks[j].calls) = 2
               /\ tasks[i].calls[1] = Call("clear_chat", tasks[i].chat_id)
               /\ tasks[j].calls[1] = Call("clear_chat", tasks[i].chat_id)
               /\ tasks[i].calls[2].arg = tasks[i].chat_id
               /\ tasks[j].calls[2].arg = tasks[i].chat_id
               /\ tasks[i].calls[2].text /= tasks[j].calls[2].text
    /\ \A i \in TaskIds : tasks[i].kind = "new_message" => tasks[i].wrote = "none"
    /\ (\A i \in TaskIds : tasks[i].kind = "new_message")
            => DOMAIN user_status_cache = {}
    /\ \A i \in TaskIds :
          (/\ tasks[i].kind = "new_message"
           /\ tasks[i].content \notin {"messageVideoChatEnded", "messageVideoChatStarted"})
            => tasks[i].calls = <<>> /\ tasks[i].pc = "done"

C12_Witness ==
    /\ Len(tasks) = 2 /\ tasks[1].chat_id = tasks[2].chat_id
    /\ IsMessage(tasks[1], "messageVideoChatEnded")
    /\ IsMessage(tasks[2], "messageVideoChatStarted")
    /\ tasks[1].pc = "done" /\ tasks[2].pc = "done"
    /\ tasks[1].exit = "returned" /\ tasks[2].exit = "returned"

-----------------------------------------------------------------------------
(* C13 *)

\* j is a replay of i: the same membership update, read by both tasks
Replay(i, j) ==
    /\ i < j
    /\ tasks[i].kind = "chat_member" /\ tasks[j].kind = "chat_member"
    /\ tasks[i].read /\ tasks[j].read
    /\ tasks[i].chat_id = tasks[j].chat_id /\ tasks[i].user_id = tasks[j].user_id
    /\ tasks[i].old_status = tasks[j].old_status
    /\ tasks[i].new_status = tasks[j].new_status

\* no task but i and j has written the Status Cache
OnlyWriters(i, j) == \A k \in TaskIds \ {i, j} : tasks[k].wrote = "none"

\* C13 as stated: once an update has been processed, every step of processing its
\* replay leaves the Status Cache as the first processing left it, for every update
\* and every starting cache.
C13_ReplayChangesNothing ==
    [][\A i, j \in TaskIds :
          (/\ Replay(i, j) /\ OnlyWriters(i, j)
           /\ tasks[i].pc = "done"
           /\ tasks'[j] /= tasks[j])
            => user_status_cache' = user_status_cache]_vars

\* C13, amended: the same, for a replay whose call.get_client gives the result the
\* first processing got.
C13_ReplayWithSameIdentityChangesNothing ==
    [][\A i, j \in TaskIds :
          (/\ Replay(i, j) /\ OnlyWriters(i, j)
           /\ tasks[i].pc = "done"
           /\ tasks'[j] /= tasks[j]
           /\ tasks'[j].ub \in {NoValue, tasks[i].ub})
            => user_status_cache' = user_status_cache]_vars

C13_Witness ==
    /\ Len(tasks) = 2 /\ Replay(1, 2)
    /\ tasks[1].pc = "done" /\ tasks[2].pc = "done"
    /\ tasks[1].chat_id = -1002
    /\ tasks[1].wrote = Banned /\ tasks[2].wrote = Banned
    /\ tasks[1].ub = tasks[2].ub
    /\ Entry(-1002, tasks[1].ub.id) = Banned
    /\ HasEntry(-1001, my_id) /\ Entry(-1001, my_id) = Member

-----------------------------------------------------------------------------
(* C14 *)

\* C14: in every reachable state the chat records, the chats db.add_chat was called
\* for and the chats of the Status Cache keys are all supergroup ids, ids whose string
\* form starts with "-100".
C14_OnlySupergroupsRecorded ==
    /\ db \subseteq SupergroupIds
    /\ \A i \in TaskIds : \A k \in 1..Len(tasks[i].calls) :
          tasks[i].calls[k].op = "add_chat" => tasks[i].calls[k].arg \in SupergroupIds
    /\ \A key \in DOMAIN user_status_cache :
          \E c \in SupergroupIds, u \in UserIds : key = user_key(c, u)

C14_Witness ==
    /\ db /= {}
    /\ DOMAIN user_status_cache /= {}
    /\ \E i \in TaskIds :
          /\ tasks[i].kind = "chat_member" /\ tasks[i].chat_id \notin SupergroupIds
          /\ tasks[i].chat_id < 0 /\ tasks[i].pc = "done"

-----------------------------------------------------------------------------
(* C15 *)

CacheHandlers == {"_handle_leave_or_kick", "_handle_ban", "_handle_unban"}

\* C15: a step changes the Status Cache only when it ends the LeftOrKicked, Banned or
\* Unbanned handler of an update whose subject is the bot identity resolved for the
\* chat, and then only the entry keyed by the update's chat and that identity changes;
\* a step of an update whose subject differs from the resolved identity, or whose
\* identity is unavailable, leaves the whole cache unchanged.
C15_OnlySelfUpdatesWrite ==
    [][/\ user_status_cache' /= user_status_cache
            => \E i \in TaskIds :
                 /\ tasks[i].pc = "get_client" /\ tasks'[i].pc = "done"
                 /\ tasks[i].handler \in CacheHandlers
                 /\ tasks'[i].ub.tag = "client"
                 /\ tasks'[i].ub.id = tasks[i].user_id
                 /\ DOMAIN user_status_cache' =
                        DOMAIN user_status_cache
                            \cup {user_key(tasks[i].chat_id, tasks'[i].ub.id)}
                 /\ \A k \in DOMAIN user_status_cache :
                        k /= user_key(tasks[i].chat_id, tasks'[i].ub.id)
                            => user_status_cache'[k] = user_status_cache[k]
       /\ \A i \in TaskIds :
            (/\ tasks'[i] /= tasks[i]
             /\ \/ tasks'[i].ub.tag /= "client"
                \/ tasks'[i].ub.id /= tasks[i].user_id)
                => user_status_cache' = user_status_cache]_vars

C15_Witness ==
    \E i, j \in TaskIds :
        /\ tasks[i].pc = "done" /\ tasks[i].wrote /= "none"
        /\ HasEntry(tasks[i].chat_id, tasks[i].user_id)
        /\ tasks[j].pc = "done" /\ tasks[j].handler \in CacheHandlers
        /\ tasks[j].ub.tag = "client" /\ tasks[j].ub.id /= tasks[j].user_id
        /\ tasks[j].wrote = "none"
        /\ ~HasEntry(tasks[j].chat_id, tasks[j].user_id)

-----------------------------------------------------------------------------
(* C16 *)

FourStatuses == {Left, Member, Administrator, Banned}

\* the transition table of the membership classifier
TableHandler(old_status, new_status) ==
    CASE new_status = Banned -> "_handle_ban"
      [] old_status = Left /\ new_status \in {Member, Administrator} -> "_handle_join"
      [] old_status \in {Member, Administrator} /\ new_status = Left
            -> "_handle_leave_or_kick"
      [] old_status = Banned /\ new_status = Left -> "_handle_unban"
      [] OTHER -> "_handle_promotion_demotion"

\* the handler whose collaborator a call belongs to
HandlerOfCall(op) ==
    CASE op = "get_client" -> CacheHandlers
      [] op = "load_admin_cache" -> {"_handle_promotion_demotion"}
      [] op \in {"getSupergroupFullInfo", "leaveChat", "remove_chat", "sendTextMessage"}
            -> {"_handle_join"}
      [] OTHER -> {"none"} \cup CacheHandlers
                    \cup {"_handle_join", "_handle_promotion_demotion"}

\* C16: an update of an eligible chat with a nonzero subject and old and new status
\* among Left, Member, Administrator, Banned runs exactly the handler of the transition
\* table (anything -> Banned: Banned; Left -> Member or Administrator: Joined; Member or
\* Administrator -> Left: LeftOrKicked; Banned -> Left: Unbanned, which stores Left for
\* the bot itself; every other pair: Promotion/Demotion, which does nothing unless
\* administrator status is gained or lost), and every call it makes is of that handler.
C16_TransitionTable ==
    \A i \in TaskIds :
        (/\ tasks[i].kind = "chat_member" /\ tasks[i].read /\ tasks[i].user_id /= 0
         /\ tasks[i].old_status \in FourStatuses
         /\ tasks[i].new_status \in FourStatuses)
          => /\ tasks[i].handler
                    = TableHandler(tasks[i].old_status, tasks[i].new_status)
             /\ \A k \in 1..Len(tasks[i].calls) :
                    tasks[i].handler \in HandlerOfCall(tasks[i].calls[k].op)
             /\ (/\ tasks[i].old_status = Banned /\ tasks[i].new_status = Left
                 /\ tasks[i].pc = "done" /\ tasks[i].ub.tag = "client"
                 /\ tasks[i].ub.id = tasks[i].user_id)
                    => tasks[i].wrote = Left
             /\ (/\ tasks[i].handler = "_handle_promotion_demotion"
                 /\ ~Gained(tasks[i]) /\ ~Lost(tasks[i]))
                    => /\ tasks[i].pc = "done" /\ tasks[i].exit = "returned"
                       /\ tasks[i].calls = <<Call("add_chat", tasks[i].chat_id)>>
                       /\ tasks[i].wrote = "none"

C16_Witness ==
    \E i, j \in TaskIds :
        /\ tasks[i].read /\ tasks[i].old_status = Banned /\ tasks[i].new_status = Left
        /\ tasks[i].handler = "_handle_unban" /\ tasks[i].wrote = Left
        /\ tasks[i].pc = "done"
        /\ tasks[j].read /\ tasks[j].user_id /= 0
        /\ tasks[j].old_status = Banned /\ tasks[j].new_status = Member
        /\ tasks[j].handler = "_handle_promotion_demotion" /\ tasks[j].pc = "done"

-----------------------------------------------------------------------------
(* C17 *)

\* t has read an update whose old or new status is none of the four
OutsideTag(t) ==
    /\ t.kind = "chat_member" /\ t.read
    /\ (t.old_status \notin FourStatuses \/ t.new_status \notin FourStatuses)

\* t ensured the chat record and did nothing else
NothingBeyondRecord(t) ==
    /\ t.calls = <<Call("add_chat", t.chat_id)>>
    /\ t.wrote = "none"

OnlyEnsured(t) ==
    /\ t.pc = "done" /\ t.exit = "returned"
    /\ NothingBeyondRecord(t)

\* C17 as stated: an update whose old or new status is a tag outside the four ensures
\* the chat record, calls no other collaborator and leaves the Status Cache unchanged.
C17_OutsideTagDoesNothing ==
    \A i \in TaskIds : OutsideTag(tasks[i]) => NothingBeyondRecord(tasks[i])

\* C17, amended: such an update does nothing beyond ensuring the chat record, except
\* that for a nonzero subject a new status Banned runs _handle_ban (the identity is
\* resolved and nothing else is called) and a change to or from Administrator makes
\* the one call load_admin_cache and writes no entry.
C17_OutsideTagActsOnlyOnBanOrAdmin ==
    \A i \in TaskIds :
        OutsideTag(tasks[i]) =>
            IF tasks[i].user_id /= 0 /\ tasks[i].new_status = Banned
            THEN /\ tasks[i].handler = "_handle_ban"
                 /\ IF tasks[i].pc = "done"
                    THEN tasks[i].calls = <<Call("add_chat", tasks[i].chat_id),
                                            Call("get_client", tasks[i].chat_id)>>
                    ELSE /\ tasks[i].pc = "get_client"
                         /\ tasks[i].calls = <<Call("add_chat", tasks[i].chat_id)>>
            ELSE IF tasks[i].user_id /= 0 /\ (Gained(tasks[i]) \/ Lost(tasks[i]))
            THEN /\ tasks[i].handler = "_handle_promotion_demotion"
                 /\ tasks[i].wrote = "none"
                 /\ IF tasks[i].pc = "done"
                    THEN tasks[i].calls = <<Call("add_chat", tasks[i].chat_id),
                                            Call("load_admin_cache", tasks[i].chat_id)>>
                    ELSE /\ tasks[i].pc = "load_admin_cache"
                         /\ tasks[i].calls = <<Call("add_chat", tasks[i].chat_id)>>
            ELSE OnlyEnsured(tasks[i])

C17_Witness ==
    \E i, j \in TaskIds :
        /\ OutsideTag(tasks[i]) /\ tasks[i].old_status = Restricted
        /\ tasks[i].new_status = Administrator
        /\ Made(tasks[i], Call("load_admin_cache", tasks[i].chat_id))
        /\ OutsideTag(tasks[j]) /\ tasks[j].user_id /= 0
        /\ tasks[j].old_status = Restricted /\ tasks[j].new_status = Left
        /\ OnlyEnsured(tasks[j])

-----------------------------------------------------------------------------
(* C18 *)

\* C18: every Status Cache entry holds Left or Banned, never Member or Administrator;
\* no entry is ever removed; and no step of a Joined or Promotion/Demotion handler
\* changes the cache, so an entry written when the bot left or was banned still holds
\* that value after the bot has joined again.
C18_EntriesHoldLeftOrBanned ==
    [][/\ \A k \in DOMAIN user_status_cache' :
            user_status_cache'[k] \in {Left, Banned}
       /\ DOMAIN user_status_cache \subseteq DOMAIN user_status_cache'
       /\ \A i \in TaskIds :
            (/\ tasks'[i] /= tasks[i]
             /\ tasks'[i].handler \in {"_handle_join", "_handle_promotion_demotion"})
                => user_status_cache' = user_status_cache]_vars

C18_Witness ==
    \E i, j \in TaskIds :
        /\ i < j /\ tasks[i].chat_id = tasks[j].chat_id
        /\ tasks[i].pc = "done" /\ tasks[i].wrote = Banned
        /\ tasks[i].user_id = my_id
        /\ SelfJoined(tasks[j]) /\ tasks[j].pc = "done" /\ tasks[j].exit = "returned"
        /\ tasks[j].info.tag = "info"
        /\ HasEntry(tasks[i].chat_id, my_id) /\ Entry(tasks[i].chat_id, my_id) = Banned

-----------------------------------------------------------------------------
(* C19 *)

\* C19: in the Reject flow and in the Kick flow leaveChat is called only after the
\* notice to the same chat has been sent and has returned, and in the Kick flow
\* db.remove_chat only after leaveChat has been called and has returned: in the calls
\* of a task each leaveChat directly follows the notice and each remove_chat directly
\* follows the leaveChat, and a task about to leave or to remove has made the
\* preceding call last.
C19_NoticeLeaveRemove ==
    \A i \in TaskIds :
        LET c == tasks[i].calls
            n == Len(tasks[i].calls)
        IN  /\ \A k \in 1..n :
                 /\ c[k].op = "leaveChat"
                        => /\ k > 1
                           /\ c[k - 1].op = "sendTextMessage"
                           /\ c[k - 1].arg = c[k].arg
                 /\ c[k].op = "remove_chat"
                        => /\ k > 2
                           /\ c[k - 1] = Call("leaveChat", c[k].arg)
                           /\ c[k - 2].op = "sendTextMessage"
                 /\ (c[k].op = "sendTextMessage" /\ tasks[i].kind = "chat_member"
                        /\ k < n)
                        => c[k + 1].op = "leaveChat"
            /\ tasks[i].pc \in {"leaveChat_reject", "leaveChat_small"}
                    => n > 0 /\ c[n].op = "sendTextMessage"
            /\ tasks[i].pc = "remove_chat" => n > 0 /\ c[n].op = "leaveChat"
            /\ (tasks[i].pc = "done" /\ n > 0 /\ c[n].op = "remove_chat")
                    => n > 3 /\ c[n - 3].op = "getSupergroupFullInfo"

C19_Witness ==
    \E i, j \in TaskIds :
        /\ tasks[i].pc = "done" /\ tasks[i].calls = RejectCalls(tasks[i].chat_id)
        /\ tasks[j].pc = "done" /\ Len(tasks[j].calls) = 5
        /\ tasks[j].calls[3].op = "sendTextMessage"
        /\ tasks[j].calls[4].op = "leaveChat"
        /\ tasks[j].calls[5].op = "remove_chat"

-----------------------------------------------------------------------------
(* C20 *)

\* C20: a membership update of an eligible chat calls db.add_chat for its chat first
\* and exactly once, whatever its subject and transition; a handler of the classifier
\* starts only in a state where the chat is recorded; and when db.add_chat fails no
\* handler runs and the Status Cache is not written.
C20_RecordEnsuredBeforeClassification ==
    [][\A i \in TaskIds :
          (tasks[i].kind = "chat_member" /\ tasks[i].chat_id \in SupergroupIds) =>
            /\ IF tasks'[i].pc = "add_chat"
               THEN tasks'[i].calls = <<>> /\ tasks'[i].handler = "none"
               ELSE /\ tasks'[i].calls /= <<>>
                    /\ tasks'[i].calls[1] = Call("add_chat", tasks[i].chat_id)
                    /\ CountOp(tasks'[i], "add_chat") = 1
            /\ (tasks[i].handler = "none" /\ tasks'[i].handler /= "none")
                    => /\ tasks[i].pc = "add_chat"
                       /\ tasks[i].chat_id \in db'
            /\ (tasks[i].pc = "add_chat" /\ tasks'[i].pc = "done" /\ ~tasks'[i].read)
                    => /\ tasks'[i].exit = "caught"
                       /\ tasks'[i].handler = "none"
                       /\ tasks'[i].calls = <<Call("add_chat", tasks[i].chat_id)>>
                       /\ user_status_cache' = user_status_cache
            /\ tasks'[i].handler = "none" => tasks'[i].wrote = "none"]_vars

C20_Witness ==
    \E i, j \in TaskIds :
        /\ tasks[i].read /\ tasks[i].old_status = Member /\ tasks[i].new_status = Left
        /\ tasks[i].pc = "done" /\ tasks[i].wrote = Left
        /\ tasks[i].calls[1] = Call("add_chat", tasks[i].chat_id)
        /\ tasks[i].chat_id \in db
        /\ tasks[j].kind = "chat_member" /\ tasks[j].chat_id \in SupergroupIds
        /\ tasks[j].pc = "done" /\ ~tasks[j].read /\ tasks[j].exit = "caught"
        /\ tasks[j].handler = "none"

====
